---- MODULE Spec2Model ----
(***************************************************************************)
(* Model of src/Test_Task_LD_Flask/src/yandex_geocoder.py: the class       *)
(* YandexGeocoder (a client of the Yandex geocoding HTTP API) and its      *)
(* four entry points __init__, find_coordinates, find_address and          *)
(* calculate_distance.                                                     *)
(*                                                                         *)
(* Python strings are sequences of one-character strings, so that split,   *)
(* concatenation and the substring test are computed and not assumed.      *)
(* A Decimal is a record [coef, exp] (value coef * 10^exp).  The remote    *)
(* API is the environment: every request is answered by an arbitrary       *)
(* response (status code, feature list).                                   *)
(***************************************************************************)
EXTENDS Integers, Sequences, FiniteSets, TLC

VARIABLES
    pc,                     \* position of the (single, synchronous) caller
    instance,               \* "none" | "available" | "failed"
    api_key,                \* self.api_key: <<>> while unset, <<key>> once set
    long_moscow_ring_road,  \* self.long_moscow_ring_road: <<>> or <<Decimal>>
    lat_moscow_ring_road,   \* self.lat_moscow_ring_road: <<>> or <<Decimal>>
    call                    \* the invocation that has just returned or raised

vars == <<pc, instance, api_key, long_moscow_ring_road, lat_moscow_ring_road, call>>

-----------------------------------------------------------------------------
(* Bounds and input domains                                                *)

\* largest number of featureMember entries in one response
MaxFeatures == 2

\* Python's None, kept apart from every string (a string is a sequence of
\* one-character strings, and "None" is not one character)
None == <<"None">>

\* str(x) of an address argument inside an f-string
StrNone == <<"N", "o", "n", "e">>

\* the hardcoded reference address "Moscow Ring Road"
RefAddress ==
    <<"M", "o", "s", "c", "o", "w", " ", "R", "i", "n", "g", " ", "R", "o", "a", "d">>

\* the ring-road marker "MKAD"
Marker == <<"M", "K", "A", "D">>

\* Earth radius used by the distance formula
R == 6373

\* addresses a caller passes: the reference address itself, a raw text that
\* contains the marker, and None (the default of the parameter)
Addresses == { RefAddress, <<"M", "K", "A", "D", " ", "1">>, None }

ApiKeys == { "key" }

\* status codes the remote API answers with
Statuses == { 200, 400, 404, 500 }

Pos12 == <<"1", " ", "2">>
PosRedSquare ==
    <<"3", "7", ".", "6", "1", "7", "3", " ", "5", "5", ".", "7", "5", "5", "8">>
\* GeoObject.Point.pos values: two well-formed ones, one with a single token,
\* one whose second token is not a number
PosSet == { Pos12, PosRedSquare, <<"1">>, <<"1", " ", "x">> }

\* GeocoderMetaData.text values: one containing the marker, one that has the
\* marker's letters but not the marker
TextSet == { <<"a", " ", "M", "K", "A", "D", ",", "b">>, <<"M", "K", "A", " ", "D">> }

Features == [ pos : PosSet, text : TextSet ]

FeatureLists == UNION { [ 1..n -> Features ] : n \in 0..MaxFeatures }

\* what the remote API may answer to a request
Responses == [ status : Statuses, features : FeatureLists ]

-----------------------------------------------------------------------------
(* Python string and Decimal primitives                                    *)

Digits == { "0", "1", "2", "3", "4", "5", "6", "7", "8", "9" }

DigitVal(c) ==
    CASE c = "0" -> 0 [] c = "1" -> 1 [] c = "2" -> 2 [] c = "3" -> 3
      [] c = "4" -> 4 [] c = "5" -> 5 [] c = "6" -> 6 [] c = "7" -> 7
      [] c = "8" -> 8 [] c = "9" -> 9

DigitChar(d) ==
    CASE d = 0 -> "0" [] d = 1 -> "1" [] d = 2 -> "2" [] d = 3 -> "3"
      [] d = 4 -> "4" [] d = 5 -> "5" [] d = 6 -> "6" [] d = 7 -> "7"
      [] d = 8 -> "8" [] d = 9 -> "9"

\* s.split(" "): the tokens between single spaces, empty tokens included
RECURSIVE Split(_)
Split(s) ==
    IF \A i \in 1..Len(s) : s[i] # " "
    THEN << s >>
    ELSE LET k == CHOOSE i \in 1..Len(s) :
                      s[i] = " " /\ \A j \in 1..(i - 1) : s[j] # " "
         IN  << SubSeq(s, 1, k - 1) >> \o Split(SubSeq(s, k + 1, Len(s)))

\* sub in s
Contains(sub, s) ==
    \E i \in 1..(Len(s) - Len(sub) + 1) : SubSeq(s, i, i + Len(sub) - 1) = sub

\* the strings Decimal() accepts, among strings of digits, "." and letters:
\* digits with at most one point and at least one digit
IsNumeric(tok) ==
    /\ \A i \in 1..Len(tok) : tok[i] \in Digits \cup { "." }
    /\ Cardinality({ i \in 1..Len(tok) : tok[i] = "." }) <= 1
    /\ \E i \in 1..Len(tok) : tok[i] \in Digits

RECURSIVE DigitsValue(_)
DigitsValue(ds) ==
    IF ds = <<>> THEN 0
    ELSE 10 * DigitsValue(SubSeq(ds, 1, Len(ds) - 1)) + DigitVal(ds[Len(ds)])

\* Decimal(tok) for a numeric tok
Decimal(tok) ==
    LET ds == SelectSeq(tok, LAMBDA c : c \in Digits)
        p  == { i \in 1..Len(tok) : tok[i] = "." }
    IN  [ coef |-> DigitsValue(ds),
          exp  |-> IF p = {} THEN 0 ELSE (CHOOSE i \in p : TRUE) - Len(tok) ]

RECURSIVE NatDigits(_)
NatDigits(n) ==
    IF n < 10 THEN << DigitChar(n) >>
    ELSE NatDigits(n \div 10) \o << DigitChar(n % 10) >>

RECURSIVE Zeros(_)
Zeros(n) == IF n <= 0 THEN <<>> ELSE << "0" >> \o Zeros(n - 1)

\* str(d) of a non-negative Decimal with exponent <= 0
DecimalStr(d) ==
    LET ds   == NatDigits(d.coef)
        frac == 0 - d.exp
        pad  == IF Len(ds) <= frac THEN Zeros(frac - Len(ds) + 1) \o ds ELSE ds
    IN  IF frac = 0 THEN ds
        ELSE SubSeq(pad, 1, Len(pad) - frac) \o << "." >>
                 \o SubSeq(pad, Len(pad) - frac + 1, Len(pad))

\* str(x) of an address argument
StrOf(address) == IF address = None THEN StrNone ELSE address

-----------------------------------------------------------------------------
(* Results of a method: kind "ok" with the returned value, or the name of  *)
(* the exception raised, with what the exception carries.                  *)

Returned(v)      == [ kind |-> "ok", val |-> v ]
Raised(exc, v)   == [ kind |-> exc, val |-> v ]

\* the query parameters of requests.get
Request(key, location) ==
    [ format |-> "json", apikey |-> key, geocode |-> location, lang |-> "en_RU" ]

\* request_geocoder without the branch for status 400
request_geocoder_no_400_branch(key, location, r) ==
    IF r.status = 200
    THEN [ res |-> Returned(r.features), decoded |-> TRUE ]
    ELSE [ res |-> Raised("UnexpectedResponse",
                          [ status_code |-> r.status, body |-> r.features ]),
           decoded |-> FALSE ]

\* request_geocoder that takes every status but 200 for a rejected key
request_geocoder_all_invalid_key(key, location, r) ==
    IF r.status = 200
    THEN [ res |-> Returned(r.features), decoded |-> TRUE ]
    ELSE [ res |-> Raised("InvalidKey", <<>>), decoded |-> FALSE ]

\* request_geocoder(location), answered by response r.  decoded tells whether
\* response.json() was evaluated.
request_geocoder(key, location, r) ==
    IF r.status = 200
    THEN [ res |-> Returned(r.features), decoded |-> TRUE ]
    ELSE IF r.status = 400
    THEN [ res |-> Raised("InvalidKey", <<>>), decoded |-> FALSE ]
    ELSE [ res |-> Raised("UnexpectedResponse",
                          [ status_code |-> r.status, body |-> r.features ]),
           decoded |-> FALSE ]

\* find_coordinates that reads the last feature instead of the first
find_coordinates_last_feature(key, address, r) ==
    LET rg == request_geocoder(key, address, r)
        data == rg.res.val
    IN  IF rg.res.kind # "ok" THEN rg
        ELSE IF data = <<>>
        THEN [ rg EXCEPT !.res = Raised("NothingFound", StrOf(address)) ]
        ELSE LET coordinates == data[Len(data)].pos
                 toks == Split(coordinates)
             IN  IF Len(toks) # 2
                 THEN [ rg EXCEPT !.res = Raised("ValueError", <<>>) ]
                 ELSE IF ~IsNumeric(toks[1]) \/ ~IsNumeric(toks[2])
                 THEN [ rg EXCEPT !.res = Raised("InvalidOperation", <<>>) ]
                 ELSE [ rg EXCEPT !.res =
                            Returned(<< Decimal(toks[1]), Decimal(toks[2]) >>) ]

\* find_coordinates(address), answered by response r
find_coordinates(key, address, r) ==
    LET rg == request_geocoder(key, address, r)
        data == rg.res.val
    IN  IF rg.res.kind # "ok" THEN rg
        ELSE IF data = <<>>
        THEN [ rg EXCEPT !.res = Raised("NothingFound", StrOf(address)) ]
        ELSE LET coordinates == data[1].pos
                 toks == Split(coordinates)
             IN  IF Len(toks) # 2
                 THEN [ rg EXCEPT !.res = Raised("ValueError", <<>>) ]
                 ELSE IF ~IsNumeric(toks[1]) \/ ~IsNumeric(toks[2])
                 THEN [ rg EXCEPT !.res = Raised("InvalidOperation", <<>>) ]
                 ELSE [ rg EXCEPT !.res =
                            Returned(<< Decimal(toks[1]), Decimal(toks[2]) >>) ]

\* the query with ", " between the numbers, as in the NothingFound text
AddressQuery_with_space(longitude, latitude) ==
    DecimalStr(longitude) \o << ",", " " >> \o DecimalStr(latitude)

\* the query find_address sends for a coordinate pair
AddressQuery(longitude, latitude) ==
    DecimalStr(longitude) \o << "," >> \o DecimalStr(latitude)

\* the text find_address puts into NothingFound
AddressNotFoundText(longitude, latitude) ==
    DecimalStr(longitude) \o << ",", " " >> \o DecimalStr(latitude)

\* find_address(longitude, latitude), answered by response r
find_address(key, longitude, latitude, r) ==
    LET coordinates == AddressQuery(longitude, latitude)
        rg == request_geocoder(key, coordinates, r)
        data == rg.res.val
    IN  IF rg.res.kind # "ok" THEN rg
        ELSE IF data = <<>>
        THEN [ rg EXCEPT !.res =
                   Raised("NothingFound", AddressNotFoundText(longitude, latitude)) ]
        ELSE [ rg EXCEPT !.res = Returned(data[1].text) ]

\* the int 0 that calculate_distance returns for an address inside the ring
IntZero == << "int", 0 >>

\* the float R * c of the haversine formula, kept as the term of its inputs
Haversine(lat1, lon1, lat2, lon2) == << "float", R, lat1, lon1, lat2, lon2 >>

\* the marker test as an equality instead of a substring test
distance_of_marker_equality(address, longitude, latitude, ref_long, ref_lat) ==
    IF address = Marker
    THEN Returned(IntZero)
    ELSE Returned(Haversine(ref_lat, ref_long, latitude, longitude))

\* the last lines of calculate_distance, from the marker test on
distance_of(address, longitude, latitude, ref_long, ref_lat) ==
    IF Contains(Marker, address)
    THEN Returned(IntZero)
    ELSE Returned(Haversine(ref_lat, ref_long, latitude, longitude))

\* calculate_distance that sends the forward lookup a second time when the
\* first one fails
calculate_distance_retrying(key, ref_long, ref_lat, address, r1, r2) ==
    LET fc == find_coordinates(key, address, r1)
    IN  IF fc.res.kind # "ok"
        THEN [ reqs |-> << Request(key, address), Request(key, address) >>,
               resps |-> << r1, r1 >>,
               decoded |-> << fc.decoded, fc.decoded >>, outcome |-> fc.res ]
        ELSE LET longitude == fc.res.val[1]
                 latitude  == fc.res.val[2]
                 fa == find_address(key, longitude, latitude, r2)
             IN  [ reqs |-> << Request(key, address),
                                Request(key, AddressQuery(longitude, latitude)) >>,
                   resps |-> << r1, r2 >>,
                   decoded |-> << fc.decoded, fa.decoded >>,
                   outcome |-> IF fa.res.kind # "ok" THEN fa.res
                               ELSE distance_of(fa.res.val, longitude, latitude,
                                                ref_long, ref_lat) ]

\* calculate_distance(address) for an address that is not None, answered by
\* r1 (forward lookup) and, when that lookup returns, r2 (reverse lookup)
calculate_distance(key, ref_long, ref_lat, address, r1, r2) ==
    LET fc == find_coordinates(key, address, r1)
    IN  IF fc.res.kind # "ok"
        THEN [ reqs |-> << Request(key, address) >>, resps |-> << r1 >>,
               decoded |-> << fc.decoded >>, outcome |-> fc.res ]
        ELSE LET longitude == fc.res.val[1]
                 latitude  == fc.res.val[2]
                 fa == find_address(key, longitude, latitude, r2)
             IN  [ reqs |-> << Request(key, address),
                                Request(key, AddressQuery(longitude, latitude)) >>,
                   resps |-> << r1, r2 >>,
                   decoded |-> << fc.decoded, fa.decoded >>,
                   outcome |-> IF fa.res.kind # "ok" THEN fa.res
                               ELSE distance_of(fa.res.val, longitude, latitude,
                                                ref_long, ref_lat) ]

-----------------------------------------------------------------------------
(* The state machine                                                       *)

NoCall == [ op |-> "none", arg |-> <<>>, reqs |-> <<>>, resps |-> <<>>,
            decoded |-> <<>>, outcome |-> Returned(<<>>) ]

Init ==
    /\ pc = "idle"
    /\ instance = "none"
    /\ api_key = <<>>
    /\ long_moscow_ring_road = <<>>
    /\ lat_moscow_ring_road = <<>>
    /\ call = NoCall

\* a constructor that swallows the exception of the reference lookup and
\* hands the instance out with no reference point
Construct_swallowing ==
    /\ pc = "idle" /\ instance = "none"
    /\ \E key \in ApiKeys, r \in Responses :
         LET fc == find_coordinates(key, RefAddress, r)
         IN  /\ api_key' = << key >>
             /\ IF fc.res.kind = "ok"
                THEN /\ long_moscow_ring_road' = << fc.res.val[1] >>
                     /\ lat_moscow_ring_road' = << fc.res.val[2] >>
                ELSE UNCHANGED << long_moscow_ring_road, lat_moscow_ring_road >>
             /\ instance' = "available"
             /\ call' = [ op |-> "__init__", arg |-> << key >>,
                          reqs |-> << Request(key, RefAddress) >>,
                          resps |-> << r >>, decoded |-> << fc.decoded >>,
                          outcome |-> IF fc.res.kind = "ok" THEN Returned(<<>>)
                                      ELSE fc.res ]
    /\ pc' = "returned"

\* YandexGeocoder(api_key): __init__ stores the key, then looks the reference
\* address up; an exception leaves the caller without an instance
Construct ==
    /\ pc = "idle" /\ instance = "none"
    /\ \E key \in ApiKeys, r \in Responses :
         LET fc == find_coordinates(key, RefAddress, r)
         IN  /\ api_key' = << key >>
             /\ IF fc.res.kind = "ok"
                THEN /\ long_moscow_ring_road' = << fc.res.val[1] >>
                     /\ lat_moscow_ring_road' = << fc.res.val[2] >>
                     /\ instance' = "available"
                ELSE /\ UNCHANGED << long_moscow_ring_road, lat_moscow_ring_road >>
                     /\ instance' = "failed"
             /\ call' = [ op |-> "__init__", arg |-> << key >>,
                          reqs |-> << Request(key, RefAddress) >>,
                          resps |-> << r >>, decoded |-> << fc.decoded >>,
                          outcome |-> IF fc.res.kind = "ok" THEN Returned(<<>>)
                                      ELSE fc.res ]
    /\ pc' = "returned"

\* find_coordinates that stores what it resolved as the reference point
FindCoordinates_storing ==
    /\ pc = "idle" /\ instance = "available"
    /\ \E address \in Addresses, r \in Responses :
         LET fc == find_coordinates(api_key[1], address, r)
         IN  /\ call' = [ op |-> "find_coordinates", arg |-> address,
                          reqs |-> << Request(api_key[1], address) >>,
                          resps |-> << r >>, decoded |-> << fc.decoded >>,
                          outcome |-> fc.res ]
             /\ IF fc.res.kind = "ok"
                THEN /\ long_moscow_ring_road' = << fc.res.val[1] >>
                     /\ lat_moscow_ring_road' = << fc.res.val[2] >>
                ELSE UNCHANGED << long_moscow_ring_road, lat_moscow_ring_road >>
    /\ pc' = "returned"
    /\ UNCHANGED << instance, api_key >>

\* a call of find_coordinates(address) on the instance
FindCoordinates ==
    /\ pc = "idle" /\ instance = "available"
    /\ \E address \in Addresses, r \in Responses :
         LET fc == find_coordinates(api_key[1], address, r)
         IN  call' = [ op |-> "find_coordinates", arg |-> address,
                       reqs |-> << Request(api_key[1], address) >>,
                       resps |-> << r >>, decoded |-> << fc.decoded >>,
                       outcome |-> fc.res ]
    /\ pc' = "returned"
    /\ UNCHANGED << instance, api_key, long_moscow_ring_road, lat_moscow_ring_road >>

\* the Decimals a caller passes to find_address
CallerDecimals == { Decimal(<<"1">>), Decimal(<<"2">>), Decimal(<<"0", ".", "5">>) }

\* a call of find_address(longitude, latitude) on the instance
FindAddress ==
    /\ pc = "idle" /\ instance = "available"
    /\ \E longitude \in CallerDecimals, latitude \in CallerDecimals, r \in Responses :
         LET fa == find_address(api_key[1], longitude, latitude, r)
         IN  call' = [ op |-> "find_address", arg |-> << longitude, latitude >>,
                       reqs |-> << Request(api_key[1], AddressQuery(longitude, latitude)) >>,
                       resps |-> << r >>, decoded |-> << fa.decoded >>,
                       outcome |-> fa.res ]
    /\ pc' = "returned"
    /\ UNCHANGED << instance, api_key, long_moscow_ring_road, lat_moscow_ring_road >>

\* a call of calculate_distance(address) on the instance.  With address None
\* the lookups are skipped and the marker test is applied to None.
CalculateDistance ==
    /\ pc = "idle" /\ instance = "available"
    /\ \E address \in Addresses :
         IF address = None
         THEN call' = [ op |-> "calculate_distance", arg |-> address,
                        reqs |-> <<>>, resps |-> <<>>, decoded |-> <<>>,
                        outcome |-> Raised("TypeError", <<>>) ]
         ELSE \E r1 \in Responses :
                IF find_coordinates(api_key[1], address, r1).res.kind # "ok"
                THEN call' = [ op |-> "calculate_distance", arg |-> address ]
                             @@ calculate_distance(api_key[1], long_moscow_ring_road[1],
                                    lat_moscow_ring_road[1], address, r1, r1)
                ELSE \E r2 \in Responses :
                       call' = [ op |-> "calculate_distance", arg |-> address ]
                               @@ calculate_distance(api_key[1], long_moscow_ring_road[1],
                                      lat_moscow_ring_road[1], address, r1, r2)
    /\ pc' = "returned"
    /\ UNCHANGED << instance, api_key, long_moscow_ring_road, lat_moscow_ring_road >>

\* the caller takes the result (or the exception) and is ready to call again
Return ==
    /\ pc = "returned"
    /\ pc' = "idle"
    /\ call' = NoCall
    /\ UNCHANGED << instance, api_key, long_moscow_ring_road, lat_moscow_ring_road >>

Next ==
    \/ Construct
    \/ FindCoordinates
    \/ FindAddress
    \/ CalculateDistance
    \/ Return

Spec == Init /\ [][Next]_vars

-----------------------------------------------------------------------------
(* Vocabulary of the properties                                            *)

Operations == { "find_coordinates", "find_address", "calculate_distance" }

SpecErrors == { "InvalidKey", "NothingFound", "UnexpectedResponse" }

\* the coordinate a well-formed position string stands for, written out
ExpectedCoordinate(pos) ==
    CASE pos = Pos12 -> << [ coef |-> 1, exp |-> 0 ], [ coef |-> 2, exp |-> 0 ] >>
      [] pos = PosRedSquare ->
             << [ coef |-> 376173, exp |-> 0 - 4 ], [ coef |-> 557558, exp |-> 0 - 4 ] >>

WellFormed == { Pos12, PosRedSquare }

\* the "longitude,latitude" text of a well-formed position string
CommaForm(pos) == [ i \in 1..Len(pos) |-> IF pos[i] = " " THEN "," ELSE pos[i] ]

\* a response from which a forward lookup returns a coordinate
ForwardOk(r) ==
    r.status = 200 /\ r.features # <<>> /\ r.features[1].pos \in WellFormed

\* a response from which a reverse lookup returns a text
ReverseOk(r) == r.status = 200 /\ r.features # <<>>

\* the error a lookup must end with on a response that carries no result
ErrorFor(r) ==
    IF r.status = 400 THEN "InvalidKey"
    ELSE IF r.status # 200 THEN "UnexpectedResponse"
    ELSE "NothingFound"

-----------------------------------------------------------------------------
\* C1: whichever operation issued the request (construction included), a
\* response with status 400 makes it fail with InvalidKey whatever the body
\* is, the response's feature list is never decoded, and nothing follows it.
C1_Status400IsInvalidKey ==
    \A i \in 1..Len(call.resps) :
        call.resps[i].status = 400 =>
            /\ call.outcome.kind = "InvalidKey"
            /\ ~call.decoded[i]
            /\ i = Len(call.resps)

C1_Witness ==
    /\ call.op = "calculate_distance"
    /\ Len(call.resps) = 2
    /\ call.resps[2].status = 400
    /\ Len(call.resps[2].features) = 2
    /\ call.outcome.kind = "InvalidKey"

\* C2: a response whose status is neither 200 nor 400 makes the operation
\* fail with UnexpectedResponse carrying exactly that status (and the body);
\* no result, no InvalidKey, no NothingFound.
C2_OtherStatusIsUnexpected ==
    \A i \in 1..Len(call.resps) :
        call.resps[i].status \notin { 200, 400 } =>
            /\ call.outcome.kind = "UnexpectedResponse"
            /\ call.outcome.val.status_code = call.resps[i].status
            /\ call.outcome.val.body = call.resps[i].features
            /\ i = Len(call.resps)

C2_Witness ==
    /\ call.op = "find_address"
    /\ call.resps[1].status = 404
    /\ call.outcome.kind = "UnexpectedResponse"
    /\ call.outcome.val.status_code = 404

\* C3 (as claimed): on a 200 response without features, find_coordinates and
\* find_address fail with NothingFound carrying exactly the query that was
\* sent: the address, respectively the "longitude,latitude" text.
C3_NothingFoundCarriesQuery ==
    ( /\ \/ call.op = "find_coordinates" /\ call.arg # None
         \/ call.op = "find_address"
      /\ call.resps[1].status = 200
      /\ call.resps[1].features = <<>> )
    => /\ call.outcome.kind = "NothingFound"
       /\ call.outcome.val = call.reqs[1].geocode

\* C4: calculate_distance returns the int 0 exactly when the text returned
\* by the reverse lookup contains "MKAD", whatever the address passed in,
\* the coordinate resolved and the reference point are.
C4_MarkerGivesZero ==
    ( /\ call.op = "calculate_distance"
      /\ Len(call.resps) = 2
      /\ ReverseOk(call.resps[2]) )
    => /\ call.outcome.kind = "ok"
       /\ call.outcome.val = IntZero
              <=> Contains(Marker, call.resps[2].features[1].text)

C4_Witness ==
    /\ call.op = "calculate_distance"
    /\ call.arg = RefAddress
    /\ ~Contains(Marker, call.arg)
    /\ Len(call.resps) = 2
    /\ ReverseOk(call.resps[2])
    /\ Contains(Marker, call.resps[2].features[1].text)
    /\ call.outcome.val = IntZero

\* C5 (as claimed): after construction no call sends a request whose query
\* is the reference address.
C5_NoRequestForReferenceAgain ==
    call.op \in Operations =>
        \A i \in 1..Len(call.reqs) : call.reqs[i].geocode # RefAddress

\* C5 (amended): construction happens once and sends exactly one request, for
\* the reference address; afterwards the key and the reference point never
\* change, and a call sends a request for the reference address only when
\* the caller passed that address as its argument.
C5_ReferenceResolvedOnce ==
    [][ /\ call'.op = "__init__" =>
               /\ instance = "none"
               /\ Len(call'.reqs) = 1
               /\ call'.reqs[1].geocode = RefAddress
        /\ instance # "none" =>
               /\ call'.op # "__init__"
               /\ api_key' = api_key
               /\ long_moscow_ring_road' = long_moscow_ring_road
               /\ lat_moscow_ring_road' = lat_moscow_ring_road
        /\ call'.op \in Operations =>
               \A i \in 1..Len(call'.reqs) :
                   call'.reqs[i].geocode = RefAddress => call'.arg = RefAddress
      ]_vars

C5_Witness ==
    /\ instance = "available"
    /\ call.op = "calculate_distance"
    /\ call.arg = RefAddress
    /\ Len(call.reqs) = 2
    /\ call.reqs[1].geocode = RefAddress
    /\ long_moscow_ring_road = << ExpectedCoordinate(Pos12)[1] >>

\* C6 (as claimed): every call ends with a result or with one of InvalidKey,
\* NothingFound, UnexpectedResponse.
C6_OnlyThreeErrorKinds ==
    call.op # "none" => call.outcome.kind \in { "ok" } \cup SpecErrors

\* C7: construction fails with InvalidKey on status 400 and with NothingFound
\* on a 200 response without features, and then there is no instance; a
\* lookup or distance call only ever runs on an instance whose key and
\* reference point are set.
C7_FailedConstructionLeavesNoInstance ==
    /\ ( call.op = "__init__" /\ call.resps[1].status = 400 )
           => call.outcome.kind = "InvalidKey" /\ instance = "failed"
    /\ ( call.op = "__init__" /\ call.resps[1].status = 200
                              /\ call.resps[1].features = <<>> )
           => call.outcome.kind = "NothingFound" /\ instance = "failed"
    /\ call.op \in Operations => instance = "available"
    /\ instance = "available" =>
           /\ Len(api_key) = 1
           /\ Len(long_moscow_ring_road) = 1
           /\ Len(lat_moscow_ring_road) = 1

C7_Witness ==
    /\ call.op = "__init__"
    /\ call.resps[1].status = 200
    /\ call.resps[1].features = <<>>
    /\ instance = "failed"
    /\ long_moscow_ring_road = <<>>

\* C8: on a 200 response with features, find_coordinates returns the
\* coordinate of the first feature's position string, first token longitude
\* and second token latitude, whatever the later features are.
C8_FirstFeatureParsed ==
    ( /\ call.op = "find_coordinates"
      /\ ForwardOk(call.resps[1]) )
    => /\ call.outcome.kind = "ok"
       /\ call.outcome.val = ExpectedCoordinate(call.resps[1].features[1].pos)

C8_Witness ==
    /\ call.op = "find_coordinates"
    /\ call.resps[1].status = 200
    /\ Len(call.resps[1].features) = 2
    /\ call.resps[1].features[1].pos = PosRedSquare
    /\ call.resps[1].features[2].pos = Pos12
    /\ call.outcome.kind = "ok"
    /\ call.outcome.val[1] = [ coef |-> 376173, exp |-> 0 - 4 ]

\* C9 (as claimed): every call of an operation sends exactly one request.
C9_ExactlyOneRoundTrip ==
    call.op \in Operations => Len(call.reqs) = 1

\* C9 (amended): find_coordinates and find_address send exactly one request;
\* calculate_distance sends the forward request and, exactly when the forward
\* lookup returned a coordinate, one reverse request (none at all when it is
\* called without an address); every request gets one response and a
\* response that makes a lookup fail is the last of the call.
C9_RoundTripsPerCall ==
    call.op \in Operations =>
        /\ Len(call.resps) = Len(call.reqs)
        /\ call.op \in { "find_coordinates", "find_address" } => Len(call.reqs) = 1
        /\ ( call.op = "calculate_distance" /\ call.arg = None ) => Len(call.reqs) = 0
        /\ ( call.op = "calculate_distance" /\ call.arg # None ) =>
               /\ Len(call.reqs) \in { 1, 2 }
               /\ Len(call.reqs) = 2 <=> ForwardOk(call.resps[1])
        /\ \A i \in 1..(Len(call.resps) - 1) : ForwardOk(call.resps[i])

C9_Witness ==
    /\ call.op = "calculate_distance"
    /\ Len(call.reqs) = 2
    /\ ~ReverseOk(call.resps[2])
    /\ call.outcome.kind = "NothingFound"

\* C10: calculate_distance(address) first sends the forward lookup for the
\* address; a failure of it is the outcome and nothing else is sent; otherwise
\* it sends the reverse lookup for "longitude,latitude" of the coordinate
\* just resolved; a failure of that is the outcome; when both return and the
\* text lacks the marker, the outcome is the distance between the stored
\* reference point and the coordinate of the forward lookup.
C10_ForwardThenReverse ==
    ( call.op = "calculate_distance" /\ call.arg # None ) =>
        /\ call.reqs[1].geocode = call.arg
        /\ ~ForwardOk(call.resps[1]) =>
               /\ Len(call.reqs) = 1
               /\ call.outcome.kind # "ok"
               /\ ( call.resps[1].status # 200 \/ call.resps[1].features = <<>> )
                      => call.outcome.kind = ErrorFor(call.resps[1])
        /\ ForwardOk(call.resps[1]) =>
               /\ Len(call.reqs) = 2
               /\ call.reqs[2].geocode = CommaForm(call.resps[1].features[1].pos)
               /\ ~ReverseOk(call.resps[2]) =>
                      call.outcome.kind = ErrorFor(call.resps[2])
               /\ ( /\ ReverseOk(call.resps[2])
                    /\ ~Contains(Marker, call.resps[2].features[1].text) ) =>
                      /\ call.outcome.kind = "ok"
                      /\ call.outcome.val =
                             << "float", 6373,
                                lat_moscow_ring_road[1], long_moscow_ring_road[1],
                                ExpectedCoordinate(call.resps[1].features[1].pos)[2],
                                ExpectedCoordinate(call.resps[1].features[1].pos)[1] >>

C10_Witness ==
    /\ call.op = "calculate_distance"
    /\ Len(call.reqs) = 2
    /\ call.reqs[2].geocode =
           << "3", "7", ".", "6", "1", "7", "3", ",", "5", "5", ".", "7", "5", "5", "8" >>
    /\ call.outcome.kind = "ok"
    /\ call.outcome.val # IntZero
    /\ long_moscow_ring_road[1] # call.outcome.val[6]

====
